---- MODULE Spec2Model ----
(***************************************************************************)
(* A model of compass_export.py, the IES-VE export script for             *)
(* EnergyCompass.design.  The script is one sequential run that blocks on *)
(* modal dialogs; every action below is one dialog answer followed by all *)
(* the code that runs until the next dialog is shown.                     *)
(*                                                                         *)
(* Python values: None is the empty tuple and a present optional value v  *)
(* is the one-element tuple <<v>>; str is a TLA+ string; list is a         *)
(* sequence; dict is a function on its key set; a numpy series is a        *)
(* sequence of integers.                                                   *)
(***************************************************************************)
EXTENDS Integers, Sequences, FiniteSets, TLC

VARIABLES
    pc,               \* position of the run: the dialog it is blocked on
    project_name,     \* iesve.VEProject.get_current_project().name
    aps_file,         \* the host's results reader: results_per_day, HVAC node results
    utilities,        \* tariff_engine.GetUtilitiesNamesAndIds()
    model_type,       \* 'Proposed' or 'Reference': the dataset being collected
    results,          \* get_user_inputs' local dict for the dataset being collected
    proposed_inputs,  \* export's proposed_inputs
    reference_inputs, \* export's reference_inputs
    export_data,      \* export's document
    attach_reference, \* answer to "Attach Reference Model?"
    suffix,           \* export's suffix
    file_path,        \* write_file's file_path
    initialfile,      \* the default name the save dialog offers
    files,            \* the files written: <<[path, data]>>
    trace,            \* what the run did, in order: prompts, extractions, prints, writes
    fn_pc,            \* position inside a function run on its own
    fn_args,          \* arguments of a function run on its own
    fn_local,         \* its local variables
    fn_ret            \* its return value

vars == <<pc, project_name, aps_file, utilities, model_type, results,
          proposed_inputs, reference_inputs, export_data, attach_reference,
          suffix, file_path, initialfile, files, trace,
          fn_pc, fn_args, fn_local, fn_ret>>

run_vars == <<pc, project_name, utilities, model_type, results,
              proposed_inputs, reference_inputs, export_data, attach_reference,
              suffix, file_path, initialfile, files, trace>>

fn_vars == <<fn_pc, fn_args, fn_local, fn_ret>>

(***************************************************************************)
(* Bounds of the model.                                                    *)
(***************************************************************************)
MaxLayer == 3         \* highest room-side layer the host may hold a result for
MaxNodeList == 2      \* longest node list handed to get_airflows on its own
MaxKeyMap == 2        \* longest key map handed to reduce_dict on its own
MaxLength == 7        \* longest list a progress bar is drawn for
MaxBars == 2          \* progress bars drawn one after the other

None == <<>>
Some(v) == <<v>>

__version__ == "2018.0.0"

(***************************************************************************)
(* Strings.                                                                *)
(***************************************************************************)
CharAt(s, i) == SubSeq(s, i, i)

\* str.rfind(c): the last index of character c in s, 0 when there is none
\* (Python's -1, shifted by the 1-based indexing).
rfind(s, c) ==
    LET hits == {i \in 1..Len(s) : CharAt(s, i) = c}
    IN IF hits = {} THEN 0 ELSE CHOOSE i \in hits : \A j \in hits : j <= i

\* str.split(','): the pieces between the commas, at least one piece.
RECURSIVE split(_)
split(s) ==
    LET commas == {i \in 1..Len(s) : CharAt(s, i) = ","}
    IN IF commas = {} THEN <<s>>
       ELSE LET i == CHOOSE k \in commas : \A j \in commas : k <= j
            IN <<SubSeq(s, 1, i - 1)>> \o split(SubSeq(s, i + 1, Len(s)))

Digits == {"0", "1", "2", "3", "4", "5", "6", "7", "8", "9"}

DigitValue(c) ==
    CASE c = "0" -> 0 [] c = "1" -> 1 [] c = "2" -> 2 [] c = "3" -> 3
      [] c = "4" -> 4 [] c = "5" -> 5 [] c = "6" -> 6 [] c = "7" -> 7
      [] c = "8" -> 8 [] c = "9" -> 9

\* int(piece) raises ValueError unless piece is a non-empty run of digits
\* (signs, blanks and underscores are not in the alphabet typed here).
int_ok(piece) == Len(piece) > 0 /\ \A i \in 1..Len(piece) : CharAt(piece, i) \in Digits

RECURSIVE int(_)
int(piece) ==
    IF Len(piece) = 0 THEN 0
    ELSE 10 * int(SubSeq(piece, 1, Len(piece) - 1)) + DigitValue(CharAt(piece, Len(piece)))

(***************************************************************************)
(* The host's results reader.                                              *)
(***************************************************************************)
\* aps_file.get_hvac_node_results(node, layer, 'Volume flow'): the node's series
\* at that layer, or None when the host holds no result there.
get_hvac_node_results(aps, node, layer) ==
    IF node \in DOMAIN aps.hvac /\ layer \in DOMAIN aps.hvac[node]
    THEN aps.hvac[node][layer]
    ELSE None

\* numpy's element-wise a + b.
np_add(a, b) == [i \in 1..Len(a) |-> a[i] + b[i]]

RECURSIVE sum(_)
sum(a) == IF Len(a) = 0 THEN 0 ELSE a[1] + sum(Tail(a))

max(a) == CHOOSE v \in {a[i] : i \in 1..Len(a)} : \A i \in 1..Len(a) : a[i] <= v

(***************************************************************************)
(* ghnr: the volume flow of one HVAC node.                                 *)
(***************************************************************************)
\* One pass of the while loop: the next layer is read and either ends the loop
\* or is added to the total.
ghnr_iter_skip_missing(aps, node, layer, total) ==
    LET l == layer + 1
        result == get_hvac_node_results(aps, node, l)
    IN IF result = None
       THEN [break |-> l > MaxLayer, layer |-> l, total |-> total]
       ELSE [break |-> FALSE, layer |-> l, total |-> np_add(total, result[1])]

ghnr_iter(aps, node, layer, total) ==
    LET l == layer + 1
        result == get_hvac_node_results(aps, node, l)
    IN IF result = None
       THEN [break |-> TRUE, layer |-> l, total |-> total]
       ELSE [break |-> FALSE, layer |-> l, total |-> np_add(total, result[1])]

RECURSIVE ghnr_loop(_, _, _, _)
ghnr_loop(aps, node, layer, total) ==
    LET it == ghnr_iter(aps, node, layer, total)
    IN IF it.break THEN it.total ELSE ghnr_loop(aps, node, it.layer, it.total)

\* The branch ghnr takes before its loop: "none", "plant" or "room".
ghnr_branch(aps, node) ==
    IF get_hvac_node_results(aps, node, -1) = None /\ get_hvac_node_results(aps, node, 1) = None
    THEN "none"
    ELSE IF get_hvac_node_results(aps, node, -1) # None
    THEN "plant"
    ELSE "room"

ghnr(aps, node) ==
    CASE ghnr_branch(aps, node) = "none" -> None
      [] ghnr_branch(aps, node) = "plant" -> get_hvac_node_results(aps, node, -1)
      [] OTHER -> Some(ghnr_loop(aps, node, 1, get_hvac_node_results(aps, node, 1)[1]))

(***************************************************************************)
(* get_airflows.                                                           *)
(***************************************************************************)
\* The two accumulation loops: the element-wise total of the series that are
\* not None (None when there is none) and the grand total in volume units.
RECURSIVE hourly_total(_)
hourly_total(node_results) ==
    IF Len(node_results) = 0 THEN None
    ELSE LET rest == hourly_total(SubSeq(node_results, 1, Len(node_results) - 1))
             last == node_results[Len(node_results)]
         IN IF last = None THEN rest
            ELSE IF rest = None THEN last
            ELSE Some(np_add(rest[1], last[1]))

RECURSIVE grand_total(_, _)
grand_total(aps, node_results) ==
    IF Len(node_results) = 0 THEN 0
    ELSE grand_total(aps, SubSeq(node_results, 1, Len(node_results) - 1))
         + (IF node_results[Len(node_results)] = None THEN 0
            ELSE sum(node_results[Len(node_results)][1])
                 * (3600 * (24 \div aps.results_per_day)))

get_airflows(aps, room_nodes, oa_intake_nodes) ==
    LET room_results == [i \in 1..Len(room_nodes) |-> ghnr(aps, room_nodes[i])]
        oa_results == [i \in 1..Len(oa_intake_nodes) |-> ghnr(aps, oa_intake_nodes[i])]
        room_hourly_total == hourly_total(room_results)
        oa_hourly_total == hourly_total(oa_results)
    IN IF room_hourly_total # None /\ oa_hourly_total # None
       THEN [supply_air_total |-> grand_total(aps, room_results),
             supply_air_max |-> max(room_hourly_total[1]),
             outside_air_total |-> grand_total(aps, oa_results),
             outside_air_max |-> max(oa_hourly_total[1])]
       ELSE [supply_air_total |-> grand_total(aps, room_results),
             supply_air_max |-> 0,
             outside_air_total |-> grand_total(aps, oa_results),
             outside_air_max |-> 0]

(***************************************************************************)
(* reduce_dict.  A dict value is [kind, num, str]: a number, held in       *)
(* thousandths, or a value round() rejects with TypeError (a string).      *)
(***************************************************************************)
Num(n) == [kind |-> "num", num |-> n, str |-> ""]
Str(t) == [kind |-> "str", num |-> 0, str |-> t]

\* full_dict[lk] != 0
nonzero(v) == v.kind # "num" \/ v.num # 0

\* round(x, 2) on thousandths: to the nearest hundredth, ties to the even one.
round2(n) ==
    LET q == n \div 10
        r == n % 10
    IN IF r < 5 THEN 10 * q
       ELSE IF r > 5 THEN 10 * (q + 1)
       ELSE IF q % 2 = 0 THEN 10 * q ELSE 10 * (q + 1)

\* The try/except around round(): a number is rounded, anything else kept.
rounded(v) == IF v.kind = "num" THEN Num(round2(v.num)) ELSE v

\* The body of the for loop for one (lk, sk) pair.
reduce_step_rounded_test(new_dict, full_dict, pair) ==
    IF nonzero(rounded(full_dict[pair[1]]))
    THEN (pair[2] :> rounded(full_dict[pair[1]])) @@ new_dict
    ELSE new_dict

reduce_step(new_dict, full_dict, pair) ==
    IF nonzero(full_dict[pair[1]])
    THEN (pair[2] :> rounded(full_dict[pair[1]])) @@ new_dict
    ELSE new_dict

RECURSIVE reduce_dict(_, _)
reduce_dict(full_dict, key_map) ==
    IF Len(key_map) = 0 THEN <<>>
    ELSE reduce_step(reduce_dict(full_dict, SubSeq(key_map, 1, Len(key_map) - 1)),
                     full_dict, key_map[Len(key_map)])

(***************************************************************************)
(* os.path.splitext, as ntpath has it: the extension starts at the last    *)
(* dot of the last path component, unless that component has only leading *)
(* dots before it.                                                         *)
(***************************************************************************)
splitext(p) ==
    LET sepIndex == IF rfind(p, "\\") > rfind(p, "/") THEN rfind(p, "\\") ELSE rfind(p, "/")
        dotIndex == rfind(p, ".")
    IN IF dotIndex > sepIndex
          /\ \E i \in (sepIndex + 1)..(dotIndex - 1) : CharAt(p, i) # "."
       THEN <<SubSeq(p, 1, dotIndex - 1), SubSeq(p, dotIndex, Len(p))>>
       ELSE <<p, "">>

\* write_file, lines 479-480: the path that is opened for the chosen path.
json_path_any_dot(chosen) ==
    IF rfind(chosen, ".") = 0 THEN chosen \o ".json" ELSE chosen

json_path(chosen) ==
    IF splitext(chosen)[2] # ".json" THEN chosen \o ".json" ELSE chosen

\* The default name the save dialog offers.
initial_file(project, sfx) == "EC.d Export " \o project \o sfx \o ".json"

(***************************************************************************)
(* get_user_inputs: a node-list answer.                                    *)
(***************************************************************************)
\* The answer is None (dismissed) or Some(text).  An empty or missing answer
\* gives []; otherwise every piece between commas goes through int().
nodes_raise(answer) ==
    answer # None /\ answer[1] # ""
    /\ \E i \in 1..Len(split(answer[1])) : ~int_ok(split(answer[1])[i])

parse_nodes(answer) ==
    IF answer # None /\ answer[1] # ""
    THEN [i \in 1..Len(split(answer[1])) |-> int(split(answer[1])[i])]
    ELSE <<>>

(***************************************************************************)
(* get_costs.                                                              *)
(***************************************************************************)
\* tariff_engine.GetDesignNetCost(id): the host's figure for the utility.
GetDesignNetCost(id) == 100 * id

\* The for loop over the utilities: a later utility of the same name replaces
\* an earlier one.
RECURSIVE net_costs(_)
net_costs(utils) ==
    IF Len(utils) = 0 THEN <<>>
    ELSE (utils[Len(utils)][1] :> GetDesignNetCost(utils[Len(utils)][2]))
         @@ net_costs(SubSeq(utils, 1, Len(utils) - 1))

\* str_error and str_info_message are what Init left in the two host strings.
get_costs_stop_on_error(utils, str_error, str_info_message) ==
    [raised |-> str_error # "",
     prints |-> (IF str_error # "" THEN <<"Error: " \o str_error>> ELSE <<>>),
     output |-> net_costs(utils)]

get_costs(utils, str_error, str_info_message) ==
    [raised |-> FALSE,
     prints |-> (IF str_error # "" THEN <<"Error: " \o str_error>> ELSE <<>>)
                \o (IF str_info_message # "" THEN <<"Info: " \o str_info_message>> ELSE <<>>),
     output |-> net_costs(utils)]

(***************************************************************************)
(* get_results.                                                            *)
(***************************************************************************)
\* get_results without its last assignment.
ExtractionOrder_without_diagnostic ==
    <<"energy_uses", "aps_stats", "weather", "location", "building_results",
      "gains", "bodies", "costs", "airflows", "room_results">>

\* The keys of a results mapping, in the order get_results fills them.
ExtractionOrder ==
    <<"energy_uses", "aps_stats", "weather", "location", "building_results",
      "gains", "bodies", "costs", "airflows", "room_results", "diagnostic">>

\* Every key but 'diagnostic' is filled by calls into the host, any of which
\* may raise; so may opening the results file.
HostFailures == {"none", "open"} \cup {ExtractionOrder[i] : i \in 1..(Len(ExtractionOrder) - 1)}

IndexOf(key) == CHOOSE i \in 1..Len(ExtractionOrder) : ExtractionOrder[i] = key

\* iesve.VELocate().get(): the host's location data.
get_location == [latitude |-> "host:latitude", longitude |-> "host:longitude"]

\* The value get_results stores under key.
extraction(key, user_input, mtype, aps, utils, str_error) ==
    CASE key = "location" -> ("orientation" :> user_input["orientation"]) @@ get_location
      [] key = "gains" -> "host:gains(" \o mtype \o ")"
      [] key = "bodies" -> "host:bodies(" \o mtype \o ")"
      [] key = "costs" -> get_costs(utils, str_error, "").output
      [] key = "airflows" ->
            get_airflows(aps, user_input["room_nodes"], user_input["oa_intake_nodes"])
      [] key = "diagnostic" ->
            [room_nodes |-> user_input["room_nodes"],
             oa_intake_nodes |-> user_input["oa_intake_nodes"]]
      [] OTHER -> "host:" \o key

\* The first step that raises: 0 is ResultsReader.open, i is the i-th key,
\* Len(ExtractionOrder) + 1 is none.  A dismissed file picker leaves no file
\* to open.
first_failure(user_input, utils, str_error, host_fails) ==
    IF user_input["file_name"] = None \/ host_fails = "open" THEN 0
    ELSE LET host == IF host_fails = "none" THEN Len(ExtractionOrder) + 1
                     ELSE IndexOf(host_fails)
             costs == IF get_costs(utils, str_error, "").raised THEN IndexOf("costs")
                      ELSE Len(ExtractionOrder) + 1
         IN IF host < costs THEN host ELSE costs

\* What the run does up to and including step n: one event per key filled,
\* after what get_costs printed on its way to filling 'costs'.
RECURSIVE extraction_events(_, _, _, _, _)
extraction_events(n, failed_at, mtype, utils, str_error) ==
    IF n = 0 THEN <<>>
    ELSE extraction_events(n - 1, failed_at, mtype, utils, str_error)
         \o (IF ExtractionOrder[n] = "costs" /\ n < failed_at
             THEN [i \in 1..Len(get_costs(utils, str_error, "").prints) |->
                      <<"print", mtype, get_costs(utils, str_error, "").prints[i]>>]
             ELSE <<>>)
         \o (IF n < failed_at THEN <<<<"extract", mtype, ExtractionOrder[n]>>>> ELSE <<>>)

\* Where the exception that ends get_results comes from.
raise_cause(failed_at, utils, str_error, host_fails) ==
    IF failed_at = 0 THEN "open"
    ELSE IF host_fails # "none" /\ IndexOf(host_fails) = failed_at
    THEN "host:" \o host_fails
    ELSE "get_costs"

get_results(user_input, mtype, aps, utils, str_error, host_fails) ==
    LET failed_at == first_failure(user_input, utils, str_error, host_fails)
        filled == {ExtractionOrder[i] : i \in {j \in 1..Len(ExtractionOrder) : j < failed_at}}
    IN [raised |-> failed_at <= Len(ExtractionOrder),
        results |-> [key \in filled |->
                        extraction(key, user_input, mtype, aps, utils, str_error)],
        events |-> extraction_events(Len(ExtractionOrder), failed_at, mtype, utils, str_error)
                   \o (IF failed_at <= Len(ExtractionOrder)
                       THEN <<<<"raise", mtype,
                                raise_cause(failed_at, utils, str_error, host_fails)>>>>
                       ELSE <<>>)]

(***************************************************************************)
(* What the user and the host may answer.                                  *)
(***************************************************************************)
\* askinteger(minvalue=0, maxvalue=360) returns an integer in range, or None
\* when the dialog is dismissed.
OrientationAnswers == {None, Some(0), Some(360)}

\* askstring returns the text typed, or None when the dialog is dismissed.
NodeAnswers == {None} \cup {Some(t) : t \in {"", "1", "11", "1,11", "1,", "x", "1,x1"}}

\* IesFilePicker.pick_aps_file()
FileAnswers == {None, Some("model.aps")}

\* What tariff_engine.Init leaves in str_error.
TariffErrors == {"", "no tariff data"}

\* asksaveasfilename returns '' when dismissed, else the chosen path: the
\* default name accepted in some folder, or a name typed by the user.
SavePaths(default) ==
    {"C:/out/" \o default, "r", "r.json", "r.txt", "r.JSON", ".json", "C:/out.v2/r",
     "C:\\out.v2\\r"}

\* The host's results file of the run: node 1 is a plant-side node, node 11 a
\* room-side node with two layers; no other node has results.
HostFile ==
    [results_per_day |-> 24,
     hvac |-> (1 :> ((-1) :> Some(<<2, 3>>)))
              @@ (11 :> ((1 :> Some(<<1, 4>>)) @@ (2 :> Some(<<2, 0>>))))]

\* The host's utilities, as (name, id) pairs; two of them share a name.
HostUtilities == <<<<"Electricity", 1>>, <<"Gas", 2>>, <<"Electricity", 3>>>>

Prompt(mtype, title) == <<"prompt", mtype, title>>

(***************************************************************************)
(* The run.                                                                *)
(***************************************************************************)
Init ==
    /\ pc = "main"
    /\ project_name \in {"Untitled", "Tower"}
    /\ aps_file = HostFile
    /\ utilities = HostUtilities
    /\ model_type = "Proposed"
    /\ results = <<>>
    /\ proposed_inputs = <<>>
    /\ reference_inputs = <<>>
    /\ export_data = <<>>
    /\ attach_reference = FALSE
    /\ suffix = ""
    /\ file_path = None
    /\ initialfile = ""
    /\ files = <<>>
    /\ trace = <<>>
    /\ fn_pc = "idle"
    /\ fn_args = <<>>
    /\ fn_local = <<>>
    /\ fn_ret = <<>>

\* __main__ without its test of the project name.
Main_without_project_test ==
    /\ pc = "main"
    /\ pc' = "orientation"
    /\ trace' = <<Prompt("Proposed", "Orientation")>>
    /\ UNCHANGED <<project_name, aps_file, utilities, model_type, results, proposed_inputs,
                   reference_inputs, export_data, attach_reference, suffix, file_path,
                   initialfile, files, fn_vars>>

\* __main__: an unopened project ends the run; otherwise export() starts and
\* get_user_inputs('Proposed') shows its first dialog.
Main ==
    /\ pc = "main"
    /\ IF project_name = "Untitled"
       THEN /\ pc' = "exit"
            /\ trace' = <<<<"print", "", "Please open the project before running the export script.">>>>
       ELSE /\ pc' = "orientation"
            /\ trace' = <<Prompt("Proposed", "Orientation")>>
    /\ UNCHANGED <<project_name, aps_file, utilities, model_type, results, proposed_inputs,
                   reference_inputs, export_data, attach_reference, suffix, file_path,
                   initialfile, files, fn_vars>>

\* get_user_inputs, lines 54-58: the orientation is stored as answered and the
\* room node dialog is shown.
AnswerOrientation ==
    /\ pc = "orientation"
    /\ \E answer \in OrientationAnswers :
          results' = ("orientation" :> answer) @@ results
    /\ pc' = "room_nodes"
    /\ trace' = Append(trace, Prompt(model_type, "Room Nodes"))
    /\ UNCHANGED <<project_name, aps_file, utilities, model_type, proposed_inputs,
                   reference_inputs, export_data, attach_reference, suffix, file_path,
                   initialfile, files, fn_vars>>

\* get_user_inputs, lines 61-66.
AnswerRoomNodes ==
    /\ pc = "room_nodes"
    /\ \E answer \in NodeAnswers :
          IF nodes_raise(answer)
          THEN /\ pc' = "raised"
               /\ trace' = Append(trace, <<"raise", model_type, "ValueError">>)
               /\ UNCHANGED results
          ELSE /\ results' = ("room_nodes" :> parse_nodes(answer)) @@ results
               /\ pc' = "oa_intake_nodes"
               /\ trace' = Append(trace, Prompt(model_type, "Outside Air Intake Nodes"))
    /\ UNCHANGED <<project_name, aps_file, utilities, model_type, proposed_inputs,
                   reference_inputs, export_data, attach_reference, suffix, file_path,
                   initialfile, files, fn_vars>>

\* get_user_inputs, lines 69-74.
AnswerOaIntakeNodes ==
    /\ pc = "oa_intake_nodes"
    /\ \E answer \in NodeAnswers :
          IF nodes_raise(answer)
          THEN /\ pc' = "raised"
               /\ trace' = Append(trace, <<"raise", model_type, "ValueError">>)
               /\ UNCHANGED results
          ELSE /\ results' = ("oa_intake_nodes" :> parse_nodes(answer)) @@ results
               /\ pc' = "file_name"
               /\ trace' = Append(trace, Prompt(model_type, "Pick APS file"))
    /\ UNCHANGED <<project_name, aps_file, utilities, model_type, proposed_inputs,
                   reference_inputs, export_data, attach_reference, suffix, file_path,
                   initialfile, files, fn_vars>>

\* write_file, lines 471-477: up to the first save dialog.
WriteFileEnter(export_suffix, so_far) ==
    /\ suffix' = export_suffix
    /\ file_path' = None
    /\ initialfile' = initial_file(project_name, export_suffix)
    /\ pc' = "save"
    /\ trace' = Append(so_far, Prompt("", "Save Results as"))

\* The Proposed file is picked: get_user_inputs returns, get_results runs,
\* export_data is built (lines 16-22) and the attach question is asked.
ProposedFilePicked ==
    /\ pc = "file_name"
    /\ model_type = "Proposed"
    /\ \E answer \in FileAnswers, str_error \in TariffErrors, host_fails \in HostFailures :
          LET inputs == ("file_name" :> answer) @@ results
              r == get_results(inputs, "Proposed", aps_file, utilities, str_error, host_fails)
          IN /\ proposed_inputs' = inputs
             /\ IF r.raised
                THEN /\ pc' = "raised"
                     /\ trace' = trace \o r.events
                     /\ UNCHANGED export_data
                ELSE /\ export_data' = [exporter_version |-> __version__,
                                        proposed_results |-> r.results]
                     /\ pc' = "attach_reference"
                     /\ trace' = Append(trace \o r.events, Prompt("", "Attach Reference Model?"))
    /\ UNCHANGED <<project_name, aps_file, utilities, model_type, results, reference_inputs,
                   attach_reference, suffix, file_path, initialfile, files, fn_vars>>

\* Lines 29-40: yes starts get_user_inputs('Reference'), which skips the
\* orientation dialog; no goes on to write_file.
AnswerAttachReference ==
    /\ pc = "attach_reference"
    /\ \E answer \in BOOLEAN :
          /\ attach_reference' = answer
          /\ IF answer
             THEN /\ model_type' = "Reference"
                  /\ results' = <<>>
                  /\ pc' = "room_nodes"
                  /\ trace' = Append(trace, Prompt("Reference", "Room Nodes"))
                  /\ UNCHANGED <<suffix, file_path, initialfile>>
             ELSE /\ WriteFileEnter(" [proposed]", trace)
                  /\ UNCHANGED <<model_type, results>>
    /\ UNCHANGED <<project_name, aps_file, utilities, proposed_inputs, reference_inputs,
                   export_data, files, fn_vars>>

\* Line 36: export_data['reference_results'] = reference_results
merge_reference_as_proposed(document, reference_results) ==
    ("proposed_results" :> reference_results) @@ document

merge_reference(document, reference_results) ==
    ("reference_results" :> reference_results) @@ document

\* The Reference file is picked: lines 33-40 up to the save dialog.
ReferenceFilePicked ==
    /\ pc = "file_name"
    /\ model_type = "Reference"
    /\ \E answer \in FileAnswers, str_error \in TariffErrors, host_fails \in HostFailures :
          LET inputs == ("orientation" :> proposed_inputs["orientation"])
                        @@ ("file_name" :> answer) @@ results
              r == get_results(inputs, "Reference", aps_file, utilities, str_error, host_fails)
          IN /\ reference_inputs' = inputs
             /\ IF r.raised
                THEN /\ pc' = "raised"
                     /\ trace' = trace \o r.events
                     /\ UNCHANGED <<export_data, suffix, file_path, initialfile>>
                ELSE /\ export_data' = merge_reference(export_data, r.results)
                     /\ WriteFileEnter(IF attach_reference THEN " [both]" ELSE " [proposed]",
                                       trace \o r.events)
    /\ UNCHANGED <<project_name, aps_file, utilities, model_type, results, proposed_inputs,
                   attach_reference, files, fn_vars>>

\* write_file, line 476: the loop goes round again while the path is None or ''.
while_path_is_none(path) == path = None

while_not_file_path(path) == path = None \/ path[1] = ""

\* write_file, lines 476-486, for one answer of the save dialog: either the
\* dialog is shown again or the document is written and the run ends.  The
\* trace records the dialog's answer; of repeated dismissals it records the
\* first.
SaveDialog(chosen) ==
    /\ pc = "save"
    /\ IF while_not_file_path(Some(chosen))
       THEN /\ file_path' = Some(chosen)
            /\ pc' = "save"
            /\ trace' = IF trace[Len(trace) - 1] # <<"answer", "", "">>
                        THEN trace \o <<<<"answer", "", "">>, Prompt("", "Save Results as")>>
                        ELSE trace
            /\ UNCHANGED files
       ELSE /\ file_path' = Some(json_path(chosen))
            /\ files' = Append(files, [path |-> json_path(chosen), data |-> export_data])
            /\ trace' = trace \o <<<<"answer", "", chosen>>, <<"write", "", json_path(chosen)>>>>
            /\ pc' = "done"
    /\ UNCHANGED <<project_name, aps_file, utilities, model_type, results, proposed_inputs,
                   reference_inputs, export_data, attach_reference, suffix, initialfile,
                   fn_vars>>

SaveDialogDismissed == SaveDialog("")

SaveDialogChosen == \E chosen \in SavePaths(initialfile) : SaveDialog(chosen)

Next ==
    \/ Main
    \/ AnswerOrientation
    \/ AnswerRoomNodes
    \/ AnswerOaIntakeNodes
    \/ ProposedFilePicked
    \/ AnswerAttachReference
    \/ ReferenceFilePicked
    \/ SaveDialogDismissed
    \/ SaveDialogChosen

Spec == Init /\ [][Next]_vars

\* The run under the assumption that the user does not dismiss the save dialog
\* for ever: a path is chosen at some point.
LiveSpec == Spec /\ WF_vars(SaveDialogChosen)

(***************************************************************************)
(* Properties of the run.                                                  *)
(***************************************************************************)
InTrace(e) == \E i \in 1..Len(trace) : trace[i] = e

Position(e) == CHOOSE i \in 1..Len(trace) : trace[i] = e

EndsWith(s, t) == Len(s) >= Len(t) /\ SubSeq(s, Len(s) - Len(t) + 1, Len(s)) = t

\* The documents handed to write_file: the one the save dialog is up for and
\* the ones written.
Documents ==
    (IF pc = "save" THEN {export_data} ELSE {}) \cup {files[i].data : i \in 1..Len(files)}

ElevenKeys ==
    {"energy_uses", "aps_stats", "weather", "location", "building_results", "gains",
     "bodies", "costs", "airflows", "room_results", "diagnostic"}

\* C1: every document handed to write_file has 'exporter_version' and
\* 'proposed_results', has 'reference_results' exactly when the user attached a
\* reference model, has no other key, and each results mapping in it has
\* exactly the eleven keys.
C1_DocumentShape ==
    \A d \in Documents :
        /\ {"exporter_version", "proposed_results"} \subseteq DOMAIN d
        /\ ("reference_results" \in DOMAIN d) <=> attach_reference
        /\ DOMAIN d \subseteq {"exporter_version", "proposed_results", "reference_results"}
        /\ \A k \in DOMAIN d \ {"exporter_version"} : DOMAIN d[k] = ElevenKeys

C1_Witness ==
    /\ pc = "done"
    /\ Len(files) = 1
    /\ "reference_results" \in DOMAIN files[1].data

\* C3: the save dialog offers 'EC.d Export <project> [both].json' when a
\* reference model was attached and 'EC.d Export <project> [proposed].json'
\* when not, the tag being '[both]' exactly when the document holds
\* 'reference_results'; and every path written ends with '.json'.
C3_DefaultNameAndExtension ==
    /\ pc \in {"save", "done"} =>
          /\ initialfile = "EC.d Export " \o project_name
                           \o (IF attach_reference THEN " [both]" ELSE " [proposed]")
                           \o ".json"
          /\ attach_reference <=> ("reference_results" \in DOMAIN export_data)
    /\ \A i \in 1..Len(files) : EndsWith(files[i].path, ".json")

C3_Witness ==
    /\ pc = "done"
    /\ InTrace(<<"answer", "", "r.txt">>)
    /\ files[1].path = "r.txt.json"
    /\ initialfile = "EC.d Export Tower [both].json"

InputPrompts == {"Orientation", "Room Nodes", "Outside Air Intake Nodes", "Pick APS file"}

\* What C4 says of the datasets apart from the prompts: the same extraction
\* routines ran for the Reference dataset, on the Reference inputs, and the
\* result is in the document as 'reference_results'.
ReferenceExtracted ==
    /\ \A k \in ElevenKeys :
          InTrace(<<"extract", "Proposed", k>>) /\ InTrace(<<"extract", "Reference", k>>)
    /\ "reference_results" \in DOMAIN export_data
    /\ export_data["reference_results"]["diagnostic"]["room_nodes"]
          = reference_inputs["room_nodes"]
    /\ export_data["reference_results"]["diagnostic"]["oa_intake_nodes"]
          = reference_inputs["oa_intake_nodes"]

\* A step leaves 'proposed_results' and 'exporter_version' of the document as
\* they were.
ProposedKept ==
    "proposed_results" \in DOMAIN export_data =>
        /\ {"proposed_results", "exporter_version"} \subseteq DOMAIN export_data'
        /\ export_data'["proposed_results"] = export_data["proposed_results"]
        /\ export_data'["exporter_version"] = export_data["exporter_version"]

\* C4 as stated: with a reference model attached, every input of step 1, the
\* orientation angle included, is collected by a prompt for the Reference
\* dataset before the Reference results are extracted and merged.
C4_AllInputsPrompted ==
    (pc \in {"save", "done"} /\ attach_reference) =>
        /\ \A title \in InputPrompts : InTrace(Prompt("Reference", title))
        /\ ReferenceExtracted

\* C4, amended: with a reference model attached, the room node list, the
\* outside-air intake node list and the results file are collected by prompts
\* for the Reference dataset, while the orientation is not asked again but
\* taken over from the Proposed dataset; the same extraction routines run on
\* the Reference inputs and the result is merged as 'reference_results', no
\* step changing 'proposed_results' or 'exporter_version' once they are set.
C4_ReferenceRepeat ==
    /\ [][ProposedKept]_vars
    /\ []((pc \in {"save", "done"} /\ attach_reference) =>
             /\ \A title \in InputPrompts \ {"Orientation"} :
                   InTrace(Prompt("Reference", title))
             /\ ~InTrace(Prompt("Reference", "Orientation"))
             /\ reference_inputs["orientation"] = proposed_inputs["orientation"]
             /\ ReferenceExtracted
             /\ export_data["reference_results"]["location"]["orientation"]
                   = export_data["proposed_results"]["location"]["orientation"])

C4_Witness ==
    /\ pc = "save"
    /\ attach_reference
    /\ proposed_inputs["orientation"] = Some(360)
    /\ proposed_inputs["room_nodes"] = <<>>
    /\ reference_inputs["room_nodes"] = <<1, 11>>

\* C5: in every document written, location.orientation of proposed_results,
\* and of reference_results when present, is an integer from 0 to 360,
\* whatever the user answered, a dismissed orientation dialog included.
C5_OrientationInRange ==
    \A i \in 1..Len(files) :
        \A k \in DOMAIN files[i].data \ {"exporter_version"} :
            /\ files[i].data[k]["location"]["orientation"] # None
            /\ files[i].data[k]["location"]["orientation"][1] \in 0..360

\* C6: a tariff error is printed and the run goes on: get_costs still fills
\* 'costs' with one net cost per utility name, no exception comes out of
\* get_costs, and when nothing else fails get_results fills the remaining keys
\* and the run goes on to write_file.
C6_TariffErrorContinues ==
    /\ \A i \in 1..Len(trace) :
          /\ (trace[i][1] = "print" /\ trace[i][3] = "Error: no tariff data") =>
                /\ i < Len(trace)
                /\ trace[i + 1] = <<"extract", trace[i][2], "costs">>
          /\ trace[i][1] = "raise" => trace[i][3] # "get_costs"
    /\ \A m \in {"Proposed", "Reference"} :
          (InTrace(<<"print", m, "Error: no tariff data">>)
              /\ \A i \in 1..Len(trace) : ~(trace[i][1] = "raise" /\ trace[i][2] = m)) =>
             LET key == IF m = "Proposed" THEN "proposed_results" ELSE "reference_results"
             IN /\ InTrace(IF m = "Proposed" THEN Prompt("", "Attach Reference Model?")
                                              ELSE Prompt("", "Save Results as"))
                /\ key \in DOMAIN export_data
                /\ {"airflows", "room_results", "diagnostic"} \subseteq DOMAIN export_data[key]
                /\ DOMAIN export_data[key]["costs"]
                      = {utilities[u][1] : u \in 1..Len(utilities)}

C6_Witness ==
    /\ pc = "done"
    /\ InTrace(<<"print", "Proposed", "Error: no tariff data">>)
    /\ InTrace(<<"print", "Reference", "Error: no tariff data">>)
    /\ Len(files) = 1

\* C9: at most one file is written, and only as the last thing the run does,
\* after the Proposed prompts and extractions, the attach question and, when a
\* reference is attached, the Reference prompts and extractions, in that
\* order; a run in which a prompt parse or an extraction raised writes no
\* file, and for a project named 'Untitled' nothing is written and no prompt
\* is shown.
Before(e1, e2) == InTrace(e1) /\ InTrace(e2) /\ Position(e1) < Position(e2)

C9_WriteLast ==
    /\ Len(files) <= 1
    /\ Len(files) = Cardinality({i \in 1..Len(trace) : trace[i][1] = "write"})
    /\ \A i \in 1..Len(trace) : trace[i][1] = "write" =>
          /\ i = Len(trace)
          /\ \A title \in InputPrompts :
                Before(Prompt("Proposed", title), <<"extract", "Proposed", "energy_uses">>)
          /\ \A k \in ElevenKeys :
                Before(<<"extract", "Proposed", k>>, Prompt("", "Attach Reference Model?"))
          /\ Before(Prompt("", "Attach Reference Model?"), Prompt("", "Save Results as"))
          /\ attach_reference =>
                /\ \A title \in InputPrompts \ {"Orientation"} :
                      /\ Before(Prompt("", "Attach Reference Model?"), Prompt("Reference", title))
                      /\ Before(Prompt("Reference", title),
                                <<"extract", "Reference", "energy_uses">>)
                /\ \A k \in ElevenKeys :
                      Before(<<"extract", "Reference", k>>, Prompt("", "Save Results as"))
          /\ ~attach_reference =>
                \A j \in 1..Len(trace) : trace[j][2] # "Reference"
    /\ (\E i \in 1..Len(trace) : trace[i][1] = "raise") => (files = <<>> /\ pc = "raised")
    /\ pc = "raised" => files = <<>>
    /\ project_name = "Untitled" =>
          /\ files = <<>>
          /\ \A i \in 1..Len(trace) : trace[i][1] # "prompt"

C9_Witness ==
    /\ pc = "done"
    /\ trace[Len(trace)][1] = "write"
    /\ InTrace(<<"extract", "Reference", "diagnostic">>)
    /\ project_name = "Tower"

\* C7: write_file has no cancel path.  An empty answer of the save dialog
\* shows the dialog again; nothing is written before a non-empty path is
\* chosen; the only way out of the dialog is to write exactly one file and end
\* the run; and when the user chooses a path at some point, the file is
\* written.
C7_NoCancelPath ==
    /\ [](/\ \A i \in 1..Len(trace) :
                /\ trace[i] = <<"answer", "", "">> =>
                      (i < Len(trace) /\ trace[i + 1] = Prompt("", "Save Results as"))
                /\ trace[i][1] = "write" =>
                      (i > 1 /\ trace[i - 1][1] = "answer" /\ trace[i - 1][3] # "")
          /\ Len(files) <= 1
          /\ files # <<>> => pc = "done"
          /\ (file_path = None \/ file_path = Some("")) => files = <<>>)
    /\ [][(pc = "save" /\ pc' # "save") => (pc' = "done" /\ Len(files') = 1)]_vars
    /\ (pc = "save") ~> (pc = "done" /\ Len(files) = 1)

C7_Witness ==
    /\ pc = "done"
    /\ InTrace(<<"answer", "", "">>)
    /\ Len(files) = 1
    /\ files[1].path = "C:/out.v2/r.json"

(***************************************************************************)
(* Functions run on their own, on inputs drawn from bounded sets.  The run *)
(* itself stays where it started.                                          *)
(***************************************************************************)
RunIdle ==
    /\ pc = "function"
    /\ project_name = "Tower"
    /\ utilities = HostUtilities
    /\ model_type = "Proposed"
    /\ results = <<>>
    /\ proposed_inputs = <<>>
    /\ reference_inputs = <<>>
    /\ export_data = <<>>
    /\ attach_reference = FALSE
    /\ suffix = ""
    /\ file_path = None
    /\ initialfile = ""
    /\ files = <<>>
    /\ trace = <<>>

\* The series the host may hold for one layer of a node.
SeriesChoices == {<<1, 4>>, <<2, 0>>}

\* Sequences over S of length at most n.
RECURSIVE SeqsUpTo(_, _)
SeqsUpTo(S, n) ==
    IF n = 0 THEN {<<>>}
    ELSE LET shorter == SeqsUpTo(S, n - 1)
         IN shorter \cup {Append(q, x) : q \in shorter, x \in S}

(***************************************************************************)
(* ghnr, step by step.                                                     *)
(***************************************************************************)
\* The host holds, for node 7, any choice of results for the plant side (layer
\* -1) and the room-side layers 1..MaxLayer, gaps included; node 8 has none.
GhnrInit ==
    /\ RunIdle
    /\ \E layers \in [{-1} \cup (1..MaxLayer) -> {None} \cup {Some(q) : q \in SeriesChoices}] :
          aps_file = [results_per_day |-> 24, hvac |-> (7 :> layers)]
    /\ fn_args \in {[node |-> 7], [node |-> 8]}
    /\ fn_pc = "call"
    /\ fn_local = <<>>
    /\ fn_ret = <<>>

\* Lines 426-433: the branch taken, up to the first test of the while loop.
GhnrCall ==
    /\ fn_pc = "call"
    /\ CASE ghnr_branch(aps_file, fn_args.node) = "none" ->
              fn_ret' = None /\ fn_pc' = "returned" /\ UNCHANGED fn_local
         [] ghnr_branch(aps_file, fn_args.node) = "plant" ->
              /\ fn_ret' = get_hvac_node_results(aps_file, fn_args.node, -1)
              /\ fn_pc' = "returned"
              /\ UNCHANGED fn_local
         [] OTHER ->
              /\ fn_local' = [layer |-> 1,
                              total |-> get_hvac_node_results(aps_file, fn_args.node, 1)[1]]
              /\ fn_pc' = "loop"
              /\ UNCHANGED fn_ret
    /\ UNCHANGED <<run_vars, aps_file, fn_args>>

\* Lines 434-441: one pass of the loop, and the return when it breaks.
GhnrLoop ==
    /\ fn_pc = "loop"
    /\ LET it == ghnr_iter(aps_file, fn_args.node, fn_local.layer, fn_local.total)
       IN /\ fn_local' = [layer |-> it.layer, total |-> it.total]
          /\ IF it.break
             THEN fn_ret' = Some(it.total) /\ fn_pc' = "returned"
             ELSE UNCHANGED <<fn_ret, fn_pc>>
    /\ UNCHANGED <<run_vars, aps_file, fn_args>>

GhnrNext == GhnrCall \/ GhnrLoop

\* Python keeps executing the loop: no step of ghnr waits for anything.
GhnrSpec == GhnrInit /\ [][GhnrNext]_vars /\ WF_vars(GhnrNext)

(***************************************************************************)
(* get_airflows on its own.                                                *)
(***************************************************************************)
\* What the host may hold for one node: nothing, a plant-side result, or one
\* or two room-side layers.
NodeChoices ==
    {<<>>,
     (-1) :> Some(<<2, 3>>),
     1 :> Some(<<1, 4>>),
     (1 :> Some(<<1, 4>>)) @@ (2 :> Some(<<2, 0>>))}

AirflowInit ==
    /\ RunIdle
    /\ \E hvac \in [{1, 2} -> NodeChoices], per_day \in {6, 24} :
          aps_file = [results_per_day |-> per_day, hvac |-> hvac]
    /\ fn_args \in [room_nodes : SeqsUpTo({1, 2, 3}, MaxNodeList),
                    oa_intake_nodes : SeqsUpTo({1, 2, 3}, MaxNodeList)]
    /\ fn_pc = "call"
    /\ fn_local = <<>>
    /\ fn_ret = <<>>

GetAirflows ==
    /\ fn_pc = "call"
    /\ fn_ret' = get_airflows(aps_file, fn_args.room_nodes, fn_args.oa_intake_nodes)
    /\ fn_pc' = "returned"
    /\ UNCHANGED <<run_vars, aps_file, fn_args, fn_local>>

AirflowSpec == AirflowInit /\ [][GetAirflows]_vars

(***************************************************************************)
(* reduce_dict on its own.                                                 *)
(***************************************************************************)
\* Dict values: zero, a number that rounds to zero, numbers that do not, and
\* a value round() rejects.
ValueChoices == {Num(0), Num(4), Num(1006), Num(-2515), Str("wall")}

\* Long keys come from the keys of full_dict; short keys are any strings, one
\* of them also a key of full_dict.
KeyPairs == {"a", "b"} \X {"b", "c", "d"}

ReduceInit ==
    /\ RunIdle
    /\ aps_file = HostFile
    /\ fn_args \in [full_dict : [{"a", "b"} -> ValueChoices],
                    key_map : SeqsUpTo(KeyPairs, MaxKeyMap)]
    /\ fn_pc = "call"
    /\ fn_local = <<>>
    /\ fn_ret = <<>>

\* The call: fn_local is full_dict as the caller finds it afterwards (the
\* function only reads it).
ReduceDict ==
    /\ fn_pc = "call"
    /\ fn_ret' = reduce_dict(fn_args.full_dict, fn_args.key_map)
    /\ fn_local' = fn_args.full_dict
    /\ fn_pc' = "returned"
    /\ UNCHANGED <<run_vars, aps_file, fn_args>>

ReduceSpec == ReduceInit /\ [][ReduceDict]_vars

(***************************************************************************)
(* Properties of the functions.                                            *)
(***************************************************************************)
LongKeys(key_map) == {key_map[i][1] : i \in 1..Len(key_map)}

ShortKeys(key_map) == {key_map[i][2] : i \in 1..Len(key_map)}

DistinctShortKeys(key_map) ==
    \A i, j \in 1..Len(key_map) : key_map[i][2] = key_map[j][2] => i = j

\* What C2 says of the keys kept: short key sk is in the result exactly when
\* full_dict[lk] is not zero, and full_dict is as it was.
KeptWhenNonZero ==
    /\ \A i \in 1..Len(fn_args.key_map) :
          LET v == fn_args.full_dict[fn_args.key_map[i][1]]
          IN (fn_args.key_map[i][2] \in DOMAIN fn_ret) <=> (v.kind # "num" \/ v.num # 0)
    /\ fn_local = fn_args.full_dict

\* C2 as stated: for a key map with distinct short keys whose long keys are
\* all in full_dict, the result holds sk exactly when full_dict[lk] is not
\* zero, holds no long key and no key outside the key map, and full_dict is
\* unchanged.
C2_NoLongKey ==
    (fn_pc = "returned" /\ DistinctShortKeys(fn_args.key_map)) =>
        /\ KeptWhenNonZero
        /\ DOMAIN fn_ret \cap LongKeys(fn_args.key_map) = {}
        /\ DOMAIN fn_ret \subseteq ShortKeys(fn_args.key_map)

\* C2, amended: for a key map with distinct short keys whose long keys are
\* all in full_dict, the result holds sk exactly when full_dict[lk] is not
\* zero and holds no key that is not a short key of the map, so it holds a
\* long key only when the map also uses that key as a short key; full_dict is
\* unchanged.
C2_ShortKeysOfNonZero ==
    (fn_pc = "returned" /\ DistinctShortKeys(fn_args.key_map)) =>
        /\ KeptWhenNonZero
        /\ DOMAIN fn_ret \subseteq ShortKeys(fn_args.key_map)

C2_Witness ==
    /\ fn_pc = "returned"
    /\ fn_args.key_map = <<<<"a", "c">>, <<"b", "d">>>>
    /\ fn_args.full_dict = [a |-> Num(4), b |-> Num(0)]
    /\ fn_ret = ("c" :> Num(0))

\* The series of the listed nodes that have results, and their element-wise
\* sum (for at least one series).
Existing(nodes) ==
    SelectSeq([i \in 1..Len(nodes) |-> ghnr(aps_file, nodes[i])], LAMBDA r : r # None)

RECURSIVE SeriesSum(_)
SeriesSum(rs) ==
    IF Len(rs) = 1 THEN rs[1][1]
    ELSE [t \in 1..Len(rs[1][1]) |-> rs[1][1][t] + SeriesSum(Tail(rs))[t]]

SideMax(nodes) == IF Existing(nodes) = <<>> THEN 0 ELSE max(SeriesSum(Existing(nodes)))

\* C8: in get_airflows the two sides are independent: supply_air_max is the
\* maximum of the element-wise sum over the room nodes that have results and
\* 0 only when none has, whatever the outside-air nodes are, and the same for
\* outside_air_max over the outside-air intake nodes.
C8_SidesIndependent ==
    fn_pc = "returned" =>
        /\ fn_ret.supply_air_max = SideMax(fn_args.room_nodes)
        /\ fn_ret.outside_air_max = SideMax(fn_args.oa_intake_nodes)

\* The layers of the node ghnr is called for.
Layer(l) == get_hvac_node_results(aps_file, fn_args.node, l)

\* The first room-side layer without a result.
FirstMissing == CHOOSE l \in 1..(MaxLayer + 2) : Layer(l) = None /\ \A m \in 1..(l - 1) : Layer(m) # None

RECURSIVE LayerSum(_)
LayerSum(k) == IF k = 1 THEN Layer(1)[1] ELSE np_add(LayerSum(k - 1), Layer(k)[1])

\* C10: ghnr returns None exactly when the node has neither a plant-side nor a
\* layer-1 result; a plant-side result is returned alone; otherwise the
\* result is the element-wise sum of layers 1..k, k+1 being the first layer
\* without a result; the loop never reads past that layer, and it ends.
C10_Ghnr ==
    /\ [](fn_pc = "loop" =>
             /\ fn_local.layer < FirstMissing
             /\ fn_local.total = LayerSum(fn_local.layer))
    /\ [](fn_pc = "returned" =>
             /\ (fn_ret = None) <=> (Layer(-1) = None /\ Layer(1) = None)
             /\ Layer(-1) # None => fn_ret = Layer(-1)
             /\ (Layer(-1) = None /\ Layer(1) # None) =>
                   /\ fn_ret = Some(LayerSum(FirstMissing - 1))
                   /\ fn_local.layer = FirstMissing
             /\ fn_ret = ghnr(aps_file, fn_args.node))
    /\ <>(fn_pc = "returned")

C10_Witness ==
    /\ fn_pc = "returned"
    /\ Layer(-1) = None
    /\ Layer(1) = Some(<<1, 4>>)
    /\ Layer(2) = Some(<<2, 0>>)
    /\ Layer(3) = None
    /\ fn_local.layer = 3
    /\ fn_ret = Some(<<3, 4>>)

(***************************************************************************)
(* The progress bar: pb_header and pb_update.                              *)
(*                                                                         *)
(* _threshold is held in hundredths.  The code adds 0.01 to a float at     *)
(* most a hundred times and compares round(_threshold, 3), which removes   *)
(* the accumulated error (far below 0.0005), so the rounded threshold is   *)
(* the hundredth itself.  Both sides of the comparison are the floats      *)
(* nearest to a number of thousandths, so they compare as the thousandths  *)
(* do.                                                                     *)
(***************************************************************************)
PROGRESS_BAR_WIDTH == 100

\* round(a / b, 3) in thousandths: the nearest thousandth, a tie going to the
\* even one.  (For a tie that the float a / b does not hit exactly Python may
\* go either way; a tie between hundredths needs b to be a multiple of 2000.)
round3(a, b) ==
    LET q == (1000 * a) \div b
        r == (1000 * a) % b
    IN IF 2 * r < b THEN q
       ELSE IF 2 * r > b THEN q + 1
       ELSE IF q % 2 = 0 THEN q ELSE q + 1

\* Line 452, the test of the while loop.
pb_while_strict(index, length, threshold) ==
    round3(index + 1, length) > 10 * threshold

pb_while(index, length, threshold) ==
    round3(index + 1, length) >= 10 * threshold

\* No bar has been drawn: the global _threshold does not exist yet.
PbInit ==
    /\ RunIdle
    /\ aps_file = HostFile
    /\ fn_pc = "idle"
    /\ fn_args = <<>>
    /\ fn_local = [_threshold |-> None]
    /\ fn_ret = [X |-> 0, close |-> 0, bars |-> 0]

\* pb_header, for a bar over a list of the given length: the threshold is set
\* back to 0.01 and the caller's for loop starts at index 0.
pb_header ==
    /\ fn_pc = "idle"
    /\ fn_ret.bars < MaxBars
    /\ \E length \in 0..MaxLength : fn_args' = [index |-> 0, length |-> length]
    /\ fn_local' = [_threshold |-> Some(1)]
    /\ fn_ret' = [X |-> 0, close |-> 0, bars |-> fn_ret.bars]
    /\ fn_pc' = "for"
    /\ UNCHANGED <<run_vars, aps_file>>

\* The caller's for loop calls pb_update(index, length).
pb_update ==
    /\ fn_pc = "for"
    /\ fn_args.index < fn_args.length
    /\ fn_pc' = "while"
    /\ UNCHANGED <<run_vars, aps_file, fn_args, fn_local, fn_ret>>

\* Lines 452-456: one pass of the while loop, or its end, the closing bracket
\* at the last index, and the return to the for loop.
pb_update_while ==
    /\ fn_pc = "while"
    /\ IF pb_while(fn_args.index, fn_args.length, fn_local._threshold[1])
       THEN /\ fn_ret' = [fn_ret EXCEPT !.X = @ + 1]
            /\ fn_local' = [_threshold |-> Some(fn_local._threshold[1] + 1)]
            /\ UNCHANGED <<fn_pc, fn_args>>
       ELSE /\ fn_ret' = [fn_ret EXCEPT !.close =
                             IF fn_args.index + 1 = fn_args.length THEN @ + 1 ELSE @]
            /\ fn_args' = [fn_args EXCEPT !.index = @ + 1]
            /\ fn_pc' = "for"
            /\ UNCHANGED fn_local
    /\ UNCHANGED <<run_vars, aps_file>>

\* The caller's for loop is over; _threshold stays as the bar left it.
pb_end ==
    /\ fn_pc = "for"
    /\ fn_args.index = fn_args.length
    /\ fn_pc' = "idle"
    /\ fn_ret' = [fn_ret EXCEPT !.bars = @ + 1]
    /\ UNCHANGED <<run_vars, aps_file, fn_args, fn_local>>

PbNext == pb_header \/ pb_update \/ pb_update_while \/ pb_end

\* Python keeps executing the loops: no step of a bar waits for anything.
PbSpec == PbInit /\ [][PbNext]_vars /\ WF_vars(PbNext)

\* The marks the claim expects after i of n steps: the hundredths k with
\* k/100 <= round(i/n, 3).
Marks(i, n) ==
    IF i = 0 THEN 0
    ELSE Cardinality({k \in 1..PROGRESS_BAR_WIDTH : 10 * k <= round3(i, n)})

\* C11: for a bar of length n >= 1, after pb_header and pb_update(i, n) for
\* i = 0..n-1, the marks printed after each step are the hundredths k with
\* k/100 <= round((i+1)/n, 3), never fewer than before nor more than 100, and
\* 100 in all; the closing ']' is printed once, at the last step; pb_header
\* resets the threshold, so a bar after another is drawn the same; and every
\* pb_update call returns.
C11_ProgressBar ==
    /\ []((fn_pc \in {"for", "while"} /\ fn_args.length >= 1) =>
             /\ fn_local._threshold = Some(fn_ret.X + 1)
             /\ fn_ret.X <= PROGRESS_BAR_WIDTH
             /\ fn_pc = "for" =>
                   /\ fn_ret.X = Marks(fn_args.index, fn_args.length)
                   /\ fn_ret.close = (IF fn_args.index = fn_args.length THEN 1 ELSE 0)
                   /\ fn_args.index = fn_args.length => fn_ret.X = PROGRESS_BAR_WIDTH
             /\ fn_pc = "while" =>
                   /\ fn_ret.close = 0
                   /\ fn_ret.X >= Marks(fn_args.index, fn_args.length)
                   /\ fn_ret.X <= Marks(fn_args.index + 1, fn_args.length))
    /\ [][(fn_pc = "idle" /\ fn_pc' = "for") => fn_local'._threshold = Some(1)]_vars
    /\ [][(fn_pc # "idle" /\ fn_pc' # "idle") => fn_ret'.X >= fn_ret.X]_vars
    /\ (fn_pc = "while") ~> (fn_pc = "for")

\* The second bar, over three items, after its second step: 66 marks.
C11_Witness ==
    /\ fn_pc = "for"
    /\ fn_ret.bars = 1
    /\ fn_args = [index |-> 2, length |-> 3]
    /\ fn_ret.X = 66
    /\ fn_ret.close = 0

====
